---- MODULE Spec2Model ----
(***************************************************************************)
(* Model of the /init orchestration of src/app.py: the Flask handler       *)
(* init_all and the five phase functions it calls, each remote call a      *)
(* blocking round trip through the gateway `call`.  The three participant  *)
(* services are the environment: every response is an input.               *)
(***************************************************************************)
EXTENDS Integers, Sequences, FiniteSets, TLC

\* ------------------------------------------------------------------ bounds
\* Longest string (in characters) a response carries where trimming matters.
MaxStrLen == 2
\* Longest request listing returned by .../vc-request/all.
MaxListLen == 2
\* Most entries of an object handed to extract_id on its own.
MaxKeys == 2

\* ------------------------------------------------------- JSON values
\* A decoded JSON value (what resp.json() yields), tagged by its Python type.
\* A string is the sequence of its characters; an object keeps its entries in
\* document order, as a Python dict does.
Str(s) == [t |-> "str", s |-> s]
Null == [t |-> "null"]
Num(n) == [t |-> "num", n |-> n]
Obj(kv) == [t |-> "obj", kv |-> kv]
List(l) == [t |-> "list", l |-> l]
\* A local name that is not bound (yet, or any more).
Unset == [t |-> "unset"]

Chars == {" ", "a"}
Whitespace == {" "}

RECURSIVE SeqsUpTo(_, _)
SeqsUpTo(S, n) ==
    IF n = 0 THEN {<<>>}
    ELSE LET shorter == SeqsUpTo(S, n - 1)
         IN  shorter \cup {Append(s, c) : s \in shorter, c \in S}

Strings == SeqsUpTo(Chars, MaxStrLen)

\* ------------------------------------------------- Python evaluation
\* The outcome of evaluating an expression: a value, or a raised exception
\* with its str(e).
Ok(v) == [ok |-> TRUE, v |-> v]
Raise(m) == [ok |-> FALSE, err |-> m]

\* `key in d` and `d[key]` on a dict.
Has(o, k) == \E i \in 1..Len(o.kv) : o.kv[i][1] = k
Get(o, k) == o.kv[CHOOSE i \in 1..Len(o.kv) : o.kv[i][1] = k][2]

\* v[key] with a string key.
Subscript(v, k) ==
    CASE v.t = "obj" -> IF Has(v, k) THEN Ok(Get(v, k)) ELSE Raise("'" \o k \o "'")
      [] v.t = "list" -> Raise("list indices must be integers or slices, not str")
      [] v.t = "str" -> Raise("string indices must be integers")
      [] v.t = "num" -> Raise("'int' object is not subscriptable")
      [] v.t = "null" -> Raise("'NoneType' object is not subscriptable")

\* A variant that subscripts with 0 instead of -1.
LastOfFirst(v) ==
    CASE v.t = "list" ->
            IF Len(v.l) > 0 THEN Ok(v.l[1]) ELSE Raise("list index out of range")
      [] v.t = "str" ->
            IF Len(v.s) > 0 THEN Ok(Str(<<v.s[1]>>))
            ELSE Raise("string index out of range")
      [] v.t = "obj" -> Raise("0")
      [] v.t = "num" -> Raise("'int' object is not subscriptable")
      [] v.t = "null" -> Raise("'NoneType' object is not subscriptable")

\* v[-1].
LastOf(v) ==
    CASE v.t = "list" ->
            IF Len(v.l) > 0 THEN Ok(v.l[Len(v.l)]) ELSE Raise("list index out of range")
      [] v.t = "str" ->
            IF Len(v.s) > 0 THEN Ok(Str(<<v.s[Len(v.s)]>>))
            ELSE Raise("string index out of range")
      [] v.t = "obj" -> Raise("-1")
      [] v.t = "num" -> Raise("'int' object is not subscriptable")
      [] v.t = "null" -> Raise("'NoneType' object is not subscriptable")

\* bool(v).
Truthy(v) ==
    CASE v.t = "str" -> Len(v.s) > 0
      [] v.t = "num" -> v.n # 0
      [] v.t = "null" -> FALSE
      [] v.t = "obj" -> Len(v.kv) > 0
      [] v.t = "list" -> Len(v.l) > 0

Digits == <<"0", "1", "2", "3", "4", "5", "6", "7", "8", "9">>

\* str(v), for the scalars (a number is a single digit here).
PyStr(v) ==
    CASE v.t = "str" -> v.s
      [] v.t = "null" -> <<"N", "o", "n", "e">>
      [] v.t = "num" -> <<Digits[v.n + 1]>>

\* s.strip(): leading, then trailing whitespace removed.
RECURSIVE LStrip(_)
LStrip(s) == IF s # <<>> /\ Head(s) \in Whitespace THEN LStrip(Tail(s)) ELSE s

RECURSIVE RStrip(_)
RStrip(s) ==
    IF s # <<>> /\ s[Len(s)] \in Whitespace THEN RStrip(SubSeq(s, 1, Len(s) - 1)) ELSE s

Strip(s) == RStrip(LStrip(s))

\* ------------------------------------------------------- the gateway
\* What the network hands to requests.request: no response at all (the
\* request raised), a body that decodes as JSON, or a body that does not.
StatusCodes == {200, 500}
Transport == [kind |-> "transport"]
JsonBody(c, v) == [kind |-> "json", code |-> c, val |-> v]
TextBody(c, s) == [kind |-> "text", code |-> c, text |-> s]

Responses(vals, texts) ==
    {Transport} \cup {JsonBody(c, v) : c \in StatusCodes, v \in vals}
                \cup {TextBody(c, s) : c \in StatusCodes, s \in texts}

\* call(method, url, body): the decoded body, else the raw text.
call(r) ==
    CASE r.kind = "transport" -> Raise("connection error")
      [] r.kind = "json" -> Ok(r.val)
      [] r.kind = "text" -> Ok(Str(r.text))

\* ------------------------------------------------------------- state
VARIABLES
    pc,             \* the remote call init_all issues next, or "returned"
    status,         \* "running", "ok" (returned the record) or "failed"
    authority_did, consumer_did, provider_did,   \* locals of init_all
    petition_id, vc_uri,                         \* locals of get_credential
    uri,                                         \* local of grant_provider_access
    contract_id, transfer_id,                    \* locals of init_all
    calls,          \* the requests issued so far, in order
    last,           \* what the latest `call` returned (its RESPONSE line), Unset
                    \* when it raised instead
    response,       \* the response requests.request handed to the latest `call`
    http,           \* the answer of the handler once it has returned
    request_json,   \* the JSON body of the /telemetry request being handled
    runs,           \* the runs of onboarding and credential against one set of
                    \* participants: per run its position, locals and requests
    requests        \* the credential requests the participants hold, oldest first

vars == <<pc, status, authority_did, consumer_did, provider_did, petition_id,
          vc_uri, uri, contract_id, transfer_id, calls, last, response, http, request_json,
          runs, requests>>

locals == <<authority_did, consumer_did, provider_did, petition_id, vc_uri, uri,
            contract_id, transfer_id>>

NoBody == [none |-> TRUE]
Request(m, u, a, b) == [method |-> m, url |-> u, arg |-> a, body |-> b]

NoAnswer == [code |-> 0]
NoResponse == [kind |-> "none"]

\* What a run of /init never touches.
others == <<request_json, runs, requests>>

\* The two invocations that share the participants.
Runs == {1, 2}

\* A run that has not issued anything yet.
FreshRun ==
    [pc |-> "onboard_authority", status |-> "running", authority_did |-> Unset,
     consumer_did |-> Unset, provider_did |-> Unset, petition_id |-> Unset,
     vc_uri |-> Unset, calls |-> <<>>, error |-> ""]

NoRuns == [r \in Runs |-> FreshRun]

Init ==
    /\ pc = "onboard_authority"
    /\ status = "running"
    /\ authority_did = Unset /\ consumer_did = Unset /\ provider_did = Unset
    /\ petition_id = Unset /\ vc_uri = Unset /\ uri = Unset
    /\ contract_id = Unset /\ transfer_id = Unset
    /\ calls = <<>>
    /\ last = Unset
    /\ response = NoResponse
    /\ http = NoAnswer
    /\ request_json = Unset
    /\ runs = NoRuns
    /\ requests = <<>>

\* ------------------------------------------------ the pure steps
\* auto_onboard: call("GET", .../wallet/did.json)["id"].
DidOf(doc) == Subscript(doc, "id")

\* A variant that takes the oldest request of the listing.
PetitionOfFirst(all_requests) ==
    IF all_requests.t = "list" /\ Len(all_requests.l) > 0
    THEN Subscript(all_requests.l[1], "id")
    ELSE LastOf(all_requests)

\* get_credential: all_requests[-1]["id"].
PetitionOf(all_requests) ==
    LET e == LastOf(all_requests)
    IN  IF e.ok THEN Subscript(e.v, "id") ELSE e

\* A variant that reads the oldest entry of the listing.
VcUriOfFirst(arr) ==
    IF arr.t = "list" /\ Len(arr.l) > 0
    THEN Subscript(arr.l[1], "vc_uri")
    ELSE LastOf(arr)

\* A variant that reads the entry with .get, so a missing vc_uri is None.
VcUriOfOrNone(arr) ==
    LET e == LastOf(arr)
    IN  IF ~e.ok THEN e
        ELSE IF e.v.t = "obj" /\ ~Has(e.v, "vc_uri") THEN Ok(Null)
        ELSE Subscript(e.v, "vc_uri")

\* get_credential: arr[-1]["vc_uri"].
VcUriOf(arr) ==
    LET e == LastOf(arr)
    IN  IF e.ok THEN Subscript(e.v, "vc_uri") ELSE e

\* A variant whose fallback is the last value of the dict, not the first.
NormalizeUriLastValue(u) ==
    IF u.t = "obj"
    THEN IF Has(u, "uri") /\ Truthy(Get(u, "uri"))
         THEN Ok(Str(Strip(PyStr(Get(u, "uri")))))
         ELSE IF Len(u.kv) = 0
              THEN Raise("list index out of range")
              ELSE Ok(Str(Strip(PyStr(u.kv[Len(u.kv)][2]))))
    ELSE Ok(Str(Strip(PyStr(u))))

\* A variant that trims a bare string only, not a value taken out of a dict.
NormalizeUriDictUntrimmed(u) ==
    IF u.t = "obj"
    THEN IF Has(u, "uri") /\ Truthy(Get(u, "uri"))
         THEN Ok(Str(PyStr(Get(u, "uri"))))
         ELSE IF Len(u.kv) = 0
              THEN Raise("list index out of range")
              ELSE Ok(Str(PyStr(u.kv[1][2])))
    ELSE Ok(Str(Strip(PyStr(u))))

\* grant_provider_access: the dict unwrapping, then str(uri).strip().
NormalizeUri(u) ==
    IF u.t = "obj"
    THEN IF Has(u, "uri") /\ Truthy(Get(u, "uri"))
         THEN Ok(Str(Strip(PyStr(Get(u, "uri")))))
         ELSE IF Len(u.kv) = 0
              THEN Raise("list index out of range")
              ELSE Ok(Str(Strip(PyStr(u.kv[1][2]))))
    ELSE Ok(Str(Strip(PyStr(u))))

\* A variant that looks for @id before id.
CandidatesAtIdFirst == <<"@id", "id", "processId", "contractId">>

Candidates == <<"id", "@id", "processId", "contractId">>

\* A variant that hands back an empty id when the dict holds no candidate key.
extract_id_or_empty(resp) ==
    IF resp.t # "obj"
    THEN Raise("Response is not JSON")
    ELSE LET hits == {i \in 1..Len(Candidates) : Has(resp, Candidates[i])}
         IN  IF hits = {}
             THEN Ok(Str(<<>>))
             ELSE Ok(Get(resp, Candidates[CHOOSE i \in hits : \A j \in hits : i <= j]))

\* extract_id: the value under the first candidate key the dict holds.
extract_id(resp) ==
    IF resp.t # "obj"
    THEN Raise("Response is not JSON")
    ELSE LET hits == {i \in 1..Len(Candidates) : Has(resp, Candidates[i])}
         IN  IF hits = {}
             THEN Raise("No ID field found in response")
             ELSE Ok(Get(resp, Candidates[CHOOSE i \in hits : \A j \in hits : i <= j]))

\* ------------------------------------------------------ the requests
beg_body(did) ==
    [url |-> "AUTHORITY_DOCKER/api/v1/gate/access", id |-> did,
     slug |-> "rainbow_authority", vc_type |-> "DataspaceParticipantCredential"]

grant_body(did) ==
    [url |-> "PROVIDER_DOCKER/api/v1/gate/access", id |-> did,
     slug |-> "rainbow_provider", actions |-> "talk"]

negotiate_body(did) ==
    [providerId |-> did, offer |-> [id |-> "offer-001", permissions |-> <<"SEND_DATA">>]]

transfer_body(did) ==
    [providerId |-> did, assetId |-> "iot-stream-001", protocol |-> "dataspace-protocol"]

OnboardUrl(role) == role \o "/api/v1/wallet/onboard"
DidUrl(role) == role \o "/api/v1/wallet/did.json"
BegUrl == "CONSUMER/api/v1/vc-request/beg/cross-user"
ListAuthorityUrl == "AUTHORITY/api/v1/vc-request/all"
ApproveUrl == "AUTHORITY/api/v1/vc-request/{petition_id}"
ListConsumerUrl == "CONSUMER/api/v1/vc-request/all"
InstallUrl == "CONSUMER/api/v1/wallet/oidc4vci"
GrantUrl == "CONSUMER/api/v1/onboard/provider"
PresentUrl == "CONSUMER/api/v1/wallet/oidc4vp"
NegotiateUrl == "CONSUMER/api/v1/contract-negotiation/processes"
TransferUrl == "CONSUMER/api/v1/transfers/rpc/setup-request"

\* -------------------------------------------------- init_all's answers
\* A variant that puts the Consumer's and the Provider's DID under each
\* other's key.
SuccessAnswerDidsCrossed(a, c, p, k, t) ==
    [code |-> 200,
     json |-> [authority_did |-> a, consumer_did |-> p, provider_did |-> c,
               contract_id |-> k, transfer_id |-> t]]

\* A variant that puts the negotiation id and the transfer id under each
\* other's key.
SuccessAnswerCrossed(a, c, p, k, t) ==
    [code |-> 200,
     json |-> [authority_did |-> a, consumer_did |-> c, provider_did |-> p,
               contract_id |-> t, transfer_id |-> k]]

\* return jsonify({...}) with the default status.
SuccessAnswer(a, c, p, k, t) ==
    [code |-> 200,
     json |-> [authority_did |-> a, consumer_did |-> c, provider_did |-> p,
               contract_id |-> k, transfer_id |-> t]]

\* A variant that reports the error with the default status.
ErrorAnswerDefaultStatus(m) == [code |-> 200, json |-> [error |-> m]]

\* except Exception as e: return jsonify({"error": str(e)}), 500.
ErrorAnswer(m) == [code |-> 500, json |-> [error |-> m]]

\* An exception reaches init_all's handler: nothing else of the try body runs.
Fail(m) ==
    /\ status' = "failed"
    /\ pc' = "returned"
    /\ http' = ErrorAnswer(m)

\* A variant of init_all that goes from the credential straight to negotiation.
AfterCredentialSkippingAccess == "negotiate"

\* The order init_all calls the phases in.
AfterOnboard == "beg"
AfterCredential == "grant"
AfterAccess == "negotiate"
AfterNegotiate == "transfer"

Issue(req) == calls' = Append(calls, req)

\* ------------------------------------------- what the services answer
IdValues == {Str(<<"a">>), Str(<<>>), Null}
PetitionIds == {Str(<<"a">>), Num(1)}
UriValues == {Str(<<"a">>), Str(<<>>)}

\* A call whose answer the code never reads.
IgnoredResponses == Responses({Obj(<<>>)}, {<<>>})

DidResponses ==
    Responses({Obj(<< <<"id", v>> >>) : v \in IdValues}
                  \cup {Obj(<< <<"did", Str(<<"a">>)>> >>)},
              {<<>>})

\* An entry of a request listing: pending, or issued (it carries a vc_uri).
Entries ==
    {Obj(<< <<"id", i>> >>) : i \in PetitionIds}
        \cup {Obj(<< <<"id", i>>, <<"vc_uri", u>> >>) : i \in PetitionIds, u \in UriValues}

ListResponses ==
    Responses({List(l) : l \in SeqsUpTo(Entries, MaxListLen)} \cup {Obj(<<>>)},
              {<<>>, <<"a">>})

AccessResponses ==
    Responses({Str(s) : s \in Strings}
                  \cup {Obj(<< <<"uri", Str(s)>> >>) : s \in Strings}
                  \cup {Null, Obj(<<>>), Obj(<< <<"uri", Null>> >>),
                        Obj(<< <<"x", Str(<<"a">>)>> >>),
                        Obj(<< <<"x", Str(<<"a">>)>>, <<"uri", Null>> >>),
                        Obj(<< <<"uri", Str(<<>>)>>, <<"x", Str(<<"a">>)>> >>)},
              {<<>>, <<"a">>})

IdResponses ==
    Responses({Obj(<< <<"id", v>> >>) : v \in IdValues}
                  \cup {Obj(<< <<"@id", Str(<<"a">>)>> >>),
                        Obj(<< <<"@id", Null>>, <<"id", Str(<<"a">>)>> >>),
                        Obj(<< <<"x", Str(<<"a">>)>> >>), Obj(<<>>),
                        List(<<>>)},
              {<<>>})

\* -------------------------------------------------------- the actions
Running(p) == pc = p /\ status = "running"

\* auto_onboard, one call("POST", .../wallet/onboard): the answer is dropped.
OnboardWallet(p, role, next) ==
    /\ Running(p)
    /\ UNCHANGED others
    /\ \E r \in IgnoredResponses :
        /\ Issue(Request("POST", OnboardUrl(role), Unset, NoBody))
        /\ LET out == call(r)
           IN  IF out.ok
               THEN /\ last' = out.v /\ response' = r
                    /\ pc' = next
                    /\ UNCHANGED <<status, http, locals>>
               ELSE Fail(out.err) /\ last' = Unset /\ response' = r /\ UNCHANGED locals

OnboardAuthority == OnboardWallet("onboard_authority", "AUTHORITY", "onboard_consumer")
OnboardConsumer == OnboardWallet("onboard_consumer", "CONSUMER", "onboard_provider")
OnboardProvider == OnboardWallet("onboard_provider", "PROVIDER", "did_authority")

\* authority_did = call("GET", .../wallet/did.json)["id"]
DidAuthority ==
    /\ Running("did_authority")
    /\ UNCHANGED others
    /\ \E r \in DidResponses :
        /\ Issue(Request("GET", DidUrl("AUTHORITY"), Unset, NoBody))
        /\ LET out == call(r)
               did == DidOf(out.v)
           IN  IF ~out.ok
               THEN Fail(out.err) /\ last' = Unset /\ response' = r /\ UNCHANGED locals
               ELSE /\ last' = out.v /\ response' = r
                    /\ IF did.ok
                       THEN /\ authority_did' = did.v
                            /\ pc' = "did_consumer"
                            /\ UNCHANGED <<status, http, consumer_did, provider_did,
                                           petition_id, vc_uri, uri, contract_id,
                                           transfer_id>>
                       ELSE Fail(did.err) /\ UNCHANGED locals

DidConsumer ==
    /\ Running("did_consumer")
    /\ UNCHANGED others
    /\ \E r \in DidResponses :
        /\ Issue(Request("GET", DidUrl("CONSUMER"), Unset, NoBody))
        /\ LET out == call(r)
               did == DidOf(out.v)
           IN  IF ~out.ok
               THEN Fail(out.err) /\ last' = Unset /\ response' = r /\ UNCHANGED locals
               ELSE /\ last' = out.v /\ response' = r
                    /\ IF did.ok
                       THEN /\ consumer_did' = did.v
                            /\ pc' = "did_provider"
                            /\ UNCHANGED <<status, http, authority_did, provider_did,
                                           petition_id, vc_uri, uri, contract_id,
                                           transfer_id>>
                       ELSE Fail(did.err) /\ UNCHANGED locals

\* The last line of auto_onboard that can raise; init_all goes on to the
\* credential phase.
DidProvider ==
    /\ Running("did_provider")
    /\ UNCHANGED others
    /\ \E r \in DidResponses :
        /\ Issue(Request("GET", DidUrl("PROVIDER"), Unset, NoBody))
        /\ LET out == call(r)
               did == DidOf(out.v)
           IN  IF ~out.ok
               THEN Fail(out.err) /\ last' = Unset /\ response' = r /\ UNCHANGED locals
               ELSE /\ last' = out.v /\ response' = r
                    /\ IF did.ok
                       THEN /\ provider_did' = did.v
                            /\ pc' = AfterOnboard
                            /\ UNCHANGED <<status, http, authority_did, consumer_did,
                                           petition_id, vc_uri, uri, contract_id,
                                           transfer_id>>
                       ELSE Fail(did.err) /\ UNCHANGED locals

\* get_credential: the Consumer begs the credential.
Beg ==
    /\ Running("beg")
    /\ UNCHANGED others
    /\ \E r \in IgnoredResponses :
        /\ Issue(Request("POST", BegUrl, Unset, beg_body(authority_did)))
        /\ LET out == call(r)
           IN  IF out.ok
               THEN /\ last' = out.v /\ response' = r
                    /\ pc' = "list_authority"
                    /\ UNCHANGED <<status, http, locals>>
               ELSE Fail(out.err) /\ last' = Unset /\ response' = r /\ UNCHANGED locals

\* The Authority lists the requests; petition_id = all_requests[-1]["id"].
ListAuthority ==
    /\ Running("list_authority")
    /\ UNCHANGED others
    /\ \E r \in ListResponses :
        /\ Issue(Request("GET", ListAuthorityUrl, Unset, NoBody))
        /\ LET out == call(r)
               pet == PetitionOf(out.v)
           IN  IF ~out.ok
               THEN Fail(out.err) /\ last' = Unset /\ response' = r /\ UNCHANGED locals
               ELSE /\ last' = out.v /\ response' = r
                    /\ IF pet.ok
                       THEN /\ petition_id' = pet.v
                            /\ pc' = "approve"
                            /\ UNCHANGED <<status, http, authority_did, consumer_did,
                                           provider_did, vc_uri, uri, contract_id,
                                           transfer_id>>
                       ELSE Fail(pet.err) /\ UNCHANGED locals

\* The Authority approves it: the id goes into the URL.
Approve ==
    /\ Running("approve")
    /\ UNCHANGED others
    /\ \E r \in IgnoredResponses :
        /\ Issue(Request("POST", ApproveUrl, Str(PyStr(petition_id)), [approve |-> TRUE]))
        /\ LET out == call(r)
           IN  IF out.ok
               THEN /\ last' = out.v /\ response' = r
                    /\ pc' = "list_consumer"
                    /\ UNCHANGED <<status, http, locals>>
               ELSE Fail(out.err) /\ last' = Unset /\ response' = r /\ UNCHANGED locals

\* The Consumer lists its requests; vc_uri = arr[-1]["vc_uri"].
ListConsumer ==
    /\ Running("list_consumer")
    /\ UNCHANGED others
    /\ \E r \in ListResponses :
        /\ Issue(Request("GET", ListConsumerUrl, Unset, NoBody))
        /\ LET out == call(r)
               got == VcUriOf(out.v)
           IN  IF ~out.ok
               THEN Fail(out.err) /\ last' = Unset /\ response' = r /\ UNCHANGED locals
               ELSE /\ last' = out.v /\ response' = r
                    /\ IF got.ok
                       THEN /\ vc_uri' = got.v
                            /\ pc' = "install"
                            /\ UNCHANGED <<status, http, authority_did, consumer_did,
                                           provider_did, petition_id, uri, contract_id,
                                           transfer_id>>
                       ELSE Fail(got.err) /\ UNCHANGED locals

\* The Consumer installs the credential; get_credential returns and its
\* locals go.
Install ==
    /\ Running("install")
    /\ UNCHANGED others
    /\ \E r \in IgnoredResponses :
        /\ Issue(Request("POST", InstallUrl, Unset, [uri |-> vc_uri]))
        /\ LET out == call(r)
           IN  IF out.ok
               THEN /\ last' = out.v /\ response' = r
                    /\ pc' = AfterCredential
                    /\ petition_id' = Unset
                    /\ vc_uri' = Unset
                    /\ UNCHANGED <<status, http, authority_did, consumer_did,
                                   provider_did, uri, contract_id, transfer_id>>
               ELSE Fail(out.err) /\ last' = Unset /\ response' = r /\ UNCHANGED locals

\* grant_provider_access: the Consumer asks for access to the Provider and
\* normalises the presentation URI it is handed.
Grant ==
    /\ Running("grant")
    /\ UNCHANGED others
    /\ \E r \in AccessResponses :
        /\ Issue(Request("POST", GrantUrl, Unset, grant_body(provider_did)))
        /\ LET out == call(r)
               norm == NormalizeUri(out.v)
           IN  IF ~out.ok
               THEN Fail(out.err) /\ last' = Unset /\ response' = r /\ UNCHANGED locals
               ELSE /\ last' = out.v /\ response' = r
                    /\ IF norm.ok
                       THEN /\ uri' = norm.v
                            /\ pc' = "present"
                            /\ UNCHANGED <<status, http, authority_did, consumer_did,
                                           provider_did, petition_id, vc_uri,
                                           contract_id, transfer_id>>
                       ELSE Fail(norm.err) /\ UNCHANGED locals

\* The Consumer presents to its own wallet; grant_provider_access returns.
Present ==
    /\ Running("present")
    /\ UNCHANGED others
    /\ \E r \in IgnoredResponses :
        /\ Issue(Request("POST", PresentUrl, Unset, [uri |-> uri]))
        /\ LET out == call(r)
           IN  IF out.ok
               THEN /\ last' = out.v /\ response' = r
                    /\ pc' = AfterAccess
                    /\ uri' = Unset
                    /\ UNCHANGED <<status, http, authority_did, consumer_did,
                                   provider_did, petition_id, vc_uri, contract_id,
                                   transfer_id>>
               ELSE Fail(out.err) /\ last' = Unset /\ response' = r /\ UNCHANGED locals

\* negotiate_contract, answered from R.
NegotiateFrom(R) ==
    /\ Running("negotiate")
    /\ UNCHANGED others
    /\ \E r \in R :
        /\ Issue(Request("POST", NegotiateUrl, Unset, negotiate_body(provider_did)))
        /\ LET out == call(r)
               id == extract_id(out.v)
           IN  IF ~out.ok
               THEN Fail(out.err) /\ last' = Unset /\ response' = r /\ UNCHANGED locals
               ELSE /\ last' = out.v /\ response' = r
                    /\ IF id.ok
                       THEN /\ contract_id' = id.v
                            /\ pc' = AfterNegotiate
                            /\ UNCHANGED <<status, http, authority_did, consumer_did,
                                           provider_did, petition_id, vc_uri, uri,
                                           transfer_id>>
                       ELSE Fail(id.err) /\ UNCHANGED locals

\* create_transfer, answered from R, and init_all's return of the record.
TransferFrom(R) ==
    /\ Running("transfer")
    /\ UNCHANGED others
    /\ \E r \in R :
        /\ Issue(Request("POST", TransferUrl, Unset, transfer_body(provider_did)))
        /\ LET out == call(r)
               id == extract_id(out.v)
           IN  IF ~out.ok
               THEN Fail(out.err) /\ last' = Unset /\ response' = r /\ UNCHANGED locals
               ELSE /\ last' = out.v /\ response' = r
                    /\ IF id.ok
                       THEN /\ transfer_id' = id.v
                            /\ pc' = "returned"
                            /\ status' = "ok"
                            /\ http' = SuccessAnswer(authority_did, consumer_did,
                                                     provider_did, contract_id, id.v)
                            /\ UNCHANGED <<authority_did, consumer_did, provider_did,
                                           petition_id, vc_uri, uri, contract_id>>
                       ELSE Fail(id.err) /\ UNCHANGED locals

Negotiate == NegotiateFrom(IdResponses)
Transfer == TransferFrom(IdResponses)

Next ==
    \/ OnboardAuthority \/ OnboardConsumer \/ OnboardProvider
    \/ DidAuthority \/ DidConsumer \/ DidProvider
    \/ Beg \/ ListAuthority \/ Approve \/ ListConsumer \/ Install
    \/ Grant \/ Present
    \/ Negotiate \/ Transfer

Spec == Init /\ [][Next]_vars

\* ------------------------------------- extract_id on arbitrary objects
\* The run has gone through the first three phases (every identifier "a")
\* and is about to negotiate.
GrantedCalls ==
    << Request("POST", OnboardUrl("AUTHORITY"), Unset, NoBody),
       Request("POST", OnboardUrl("CONSUMER"), Unset, NoBody),
       Request("POST", OnboardUrl("PROVIDER"), Unset, NoBody),
       Request("GET", DidUrl("AUTHORITY"), Unset, NoBody),
       Request("GET", DidUrl("CONSUMER"), Unset, NoBody),
       Request("GET", DidUrl("PROVIDER"), Unset, NoBody),
       Request("POST", BegUrl, Unset, beg_body(Str(<<"a">>))),
       Request("GET", ListAuthorityUrl, Unset, NoBody),
       Request("POST", ApproveUrl, Str(<<"a">>), [approve |-> TRUE]),
       Request("GET", ListConsumerUrl, Unset, NoBody),
       Request("POST", InstallUrl, Unset, [uri |-> Str(<<"a">>)]),
       Request("POST", GrantUrl, Unset, grant_body(Str(<<"a">>))),
       Request("POST", PresentUrl, Unset, [uri |-> Str(<<"a">>)]) >>

InitExtract ==
    /\ pc = "negotiate"
    /\ status = "running"
    /\ authority_did = Str(<<"a">>)
    /\ consumer_did = Str(<<"a">>)
    /\ provider_did = Str(<<"a">>)
    /\ petition_id = Unset /\ vc_uri = Unset /\ uri = Unset
    /\ contract_id = Unset /\ transfer_id = Unset
    /\ calls = GrantedCalls
    /\ last = Obj(<<>>)
    /\ response = JsonBody(200, Obj(<<>>))
    /\ http = NoAnswer
    /\ request_json = Unset
    /\ runs = NoRuns
    /\ requests = <<>>

ExtractKeys == {"id", "@id", "processId", "contractId", "x"}

\* Every object of at most MaxKeys entries over those keys.
ExtractObjects ==
    {Obj(kv) : kv \in {s \in SeqsUpTo(ExtractKeys \X IdValues, MaxKeys) :
                          \A i, j \in 1..Len(s) : s[i][1] = s[j][1] => i = j}}

\* The status code plays no part in extract_id: every answer here is a 200.
ExtractResponses ==
    {Transport}
        \cup {JsonBody(200, v) : v \in ExtractObjects \cup {Null, List(<<>>)}}
        \cup {TextBody(200, s) : s \in {<<>>, <<"a">>}}

NegotiateAny == NegotiateFrom(ExtractResponses)
TransferAny == TransferFrom(ExtractResponses)

NextExtract == NegotiateAny \/ TransferAny

SpecExtract == InitExtract /\ [][NextExtract]_vars

\* ---------------------------------------------------------- /telemetry
TelemetryUrl == "PROVIDER/api/v1/transfers/{transfer_id}/messages"

\* send_telemetry's body.
telemetry_body(data) == [measurement |-> data]

\* return jsonify(resp) with the default status.
TelemetryAnswer(v) == [code |-> 200, json |-> v]

\* The handler has no try: Flask answers an exception with its own 500 page.
UnhandledAnswer(m) == [code |-> 500, html |-> "Internal Server Error", exception |-> m]

TelemetryKeys == {"transfer_id", "data", "temperature"}
TelemetryValues == {Str(<<"a">>), Num(1)}

\* The JSON objects a client posts: at most MaxKeys entries.
TelemetryBodies ==
    {Obj(kv) : kv \in {s \in SeqsUpTo(TelemetryKeys \X TelemetryValues, MaxKeys) :
                          \A i, j \in 1..Len(s) : s[i][1] = s[j][1] => i = j}}

TelemetryResponses ==
    Responses({Obj(<<>>), Obj(<< <<"status", Str(<<"a">>)>> >>), Null}, {<<>>})

InitTelemetry ==
    /\ pc = "telemetry"
    /\ status = "running"
    /\ authority_did = Unset /\ consumer_did = Unset /\ provider_did = Unset
    /\ petition_id = Unset /\ vc_uri = Unset /\ uri = Unset
    /\ contract_id = Unset /\ transfer_id = Unset
    /\ calls = <<>>
    /\ last = Unset
    /\ response = NoResponse
    /\ http = NoAnswer
    /\ request_json \in TelemetryBodies
    /\ runs = NoRuns
    /\ requests = <<>>

\* telemetry(): req["transfer_id"] or req["data"] raises before any call.
TelemetryRejected ==
    /\ Running("telemetry")
    /\ LET tid == Subscript(request_json, "transfer_id")
           data == Subscript(request_json, "data")
       IN  /\ ~tid.ok \/ ~data.ok
           /\ http' = UnhandledAnswer(IF tid.ok THEN data.err ELSE tid.err)
    /\ status' = "failed"
    /\ pc' = "returned"
    /\ UNCHANGED <<locals, calls, last, response, request_json, runs, requests>>

\* telemetry(): send_telemetry posts the measurement to the Provider and the
\* handler answers with whatever `call` returned.
TelemetryForwarded ==
    /\ Running("telemetry")
    /\ LET tid == Subscript(request_json, "transfer_id")
           data == Subscript(request_json, "data")
       IN  /\ tid.ok /\ data.ok
           /\ \E r \in TelemetryResponses :
                /\ Issue(Request("POST", TelemetryUrl, Str(PyStr(tid.v)),
                                 telemetry_body(data.v)))
                /\ response' = r
                /\ LET out == call(r)
                   IN  IF out.ok
                       THEN /\ last' = out.v
                            /\ http' = TelemetryAnswer(out.v)
                            /\ status' = "ok"
                       ELSE /\ last' = Unset
                            /\ http' = UnhandledAnswer(out.err)
                            /\ status' = "failed"
    /\ pc' = "returned"
    /\ UNCHANGED <<locals, request_json, runs, requests>>

NextTelemetry == TelemetryRejected \/ TelemetryForwarded

SpecTelemetry == InitTelemetry /\ [][NextTelemetry]_vars

\* --------------------------------------- runs that share the participants
\* init_all run more than once against the same Authority, Consumer and
\* Provider, through its onboarding and credential phases.  The participants
\* are reachable and answer every request; what the two listings answer is
\* decided by the requests they hold.

\* How many credential requests the participants hold before the first run.
MaxPrior == 2

\* The scalar state of the single-run specifications, left alone here.
single == <<pc, status, locals, calls, last, response, http, request_json>>

\* A participant's did.json.
DidDocument(role) == Obj(<< <<"id", Str(<<"did:", role>>)>> >>)

\* The issuance URI of an approved request.
IssuanceUri(id) == Str(<<"vc:", Digits[id + 1]>>)

\* One element of the Authority's listing.
AuthorityEntry(q) == Obj(<< <<"id", Num(q.id)>> >>)

\* One element of the Consumer's listing: the issuance URI is there once the
\* request is approved.
ConsumerEntry(q) ==
    IF q.approved
    THEN Obj(<< <<"id", Num(q.id)>>, <<"vc_uri", IssuanceUri(q.id)>> >>)
    ELSE Obj(<< <<"id", Num(q.id)>> >>)

\* Both listings keep every request, ordered by creation.
AuthorityListing == List([i \in 1..Len(requests) |-> AuthorityEntry(requests[i])])
ConsumerListing == List([i \in 1..Len(requests) |-> ConsumerEntry(requests[i])])

\* The Consumer creates a request on behalf of run r.
Created(r) ==
    Append(requests, [id |-> Len(requests) + 1, by |-> r, approved |-> FALSE])

\* The Authority approves the request the URL names, if it holds one.
Approved(arg) ==
    [i \in 1..Len(requests) |->
        IF Str(PyStr(Num(requests[i].id))) = arg
        THEN [requests[i] EXCEPT !.approved = TRUE]
        ELSE requests[i]]

\* The requests earlier use left behind, approved or still pending.
PriorRequests ==
    UNION {[1..n -> BOOLEAN] : n \in 0..MaxPrior}

InitRuns ==
    /\ pc = "onboard_authority"
    /\ status = "running"
    /\ authority_did = Unset /\ consumer_did = Unset /\ provider_did = Unset
    /\ petition_id = Unset /\ vc_uri = Unset /\ uri = Unset
    /\ contract_id = Unset /\ transfer_id = Unset
    /\ calls = <<>>
    /\ last = Unset
    /\ response = NoResponse
    /\ http = NoAnswer
    /\ request_json = Unset
    /\ runs = NoRuns
    /\ \E prior \in PriorRequests :
        requests = [i \in DOMAIN prior |->
                        [id |-> i, by |-> 0, approved |-> prior[i]]]

At(r, p) == runs[r].pc = p /\ runs[r].status = "running"

\* The run after it issued req and went on to p.
Went(r, req, p) ==
    [runs[r] EXCEPT !.calls = Append(runs[r].calls, req), !.pc = p]

\* The run after it issued req and an exception with message m reached
\* init_all's handler.
Raised(r, req, m) ==
    [runs[r] EXCEPT !.calls = Append(runs[r].calls, req), !.pc = "returned",
                    !.status = "failed", !.error = m]

\* auto_onboard's three POSTs: the answer is dropped, whatever it says.
RunOnboard(r) ==
    \E i \in 1..3 :
        LET p == <<"onboard_authority", "onboard_consumer", "onboard_provider">>[i]
            role == <<"AUTHORITY", "CONSUMER", "PROVIDER">>[i]
            next == <<"onboard_consumer", "onboard_provider", "did_authority">>[i]
            req == Request("POST", OnboardUrl(role), Unset, NoBody)
        IN  /\ At(r, p)
            /\ \E a \in IgnoredResponses \ {Transport} :
                 runs' = [runs EXCEPT ![r] =
                            IF call(a).ok THEN Went(r, req, next)
                            ELSE Raised(r, req, call(a).err)]
            /\ UNCHANGED <<requests, single>>

\* auto_onboard's three GETs of did.json, each subscripted with "id".
RunDid(r) ==
    \E i \in 1..3 :
        LET p == <<"did_authority", "did_consumer", "did_provider">>[i]
            role == <<"AUTHORITY", "CONSUMER", "PROVIDER">>[i]
            field == <<"authority_did", "consumer_did", "provider_did">>[i]
            next == <<"did_consumer", "did_provider", AfterOnboard>>[i]
            req == Request("GET", DidUrl(role), Unset, NoBody)
            out == call(JsonBody(200, DidDocument(role)))
            did == DidOf(out.v)
        IN  /\ At(r, p)
            /\ runs' = [runs EXCEPT ![r] =
                          IF did.ok
                          THEN [Went(r, req, next) EXCEPT ![field] = did.v]
                          ELSE Raised(r, req, did.err)]
            /\ UNCHANGED <<requests, single>>

\* get_credential, the beg: the Consumer creates a request.
RunBeg(r) ==
    LET req == Request("POST", BegUrl, Unset, beg_body(runs[r].authority_did))
    IN  /\ At(r, "beg")
        /\ requests' = Created(r)
        /\ runs' = [runs EXCEPT ![r] = Went(r, req, "list_authority")]
        /\ UNCHANGED single

\* petition_id = all_requests[-1]["id"] of what the Authority lists now.
RunListAuthority(r) ==
    LET req == Request("GET", ListAuthorityUrl, Unset, NoBody)
        out == call(JsonBody(200, AuthorityListing))
        pet == PetitionOf(out.v)
    IN  /\ At(r, "list_authority")
        /\ runs' = [runs EXCEPT ![r] =
                      IF pet.ok
                      THEN [Went(r, req, "approve") EXCEPT !.petition_id = pet.v]
                      ELSE Raised(r, req, pet.err)]
        /\ UNCHANGED <<requests, single>>

\* The approval of petition_id.
RunApprove(r) ==
    LET arg == Str(PyStr(runs[r].petition_id))
        req == Request("POST", ApproveUrl, arg, [approve |-> TRUE])
    IN  /\ At(r, "approve")
        /\ requests' = Approved(arg)
        /\ runs' = [runs EXCEPT ![r] = Went(r, req, "list_consumer")]
        /\ UNCHANGED single

\* vc_uri = arr[-1]["vc_uri"] of what the Consumer lists now.
RunListConsumer(r) ==
    LET req == Request("GET", ListConsumerUrl, Unset, NoBody)
        out == call(JsonBody(200, ConsumerListing))
        got == VcUriOf(out.v)
    IN  /\ At(r, "list_consumer")
        /\ runs' = [runs EXCEPT ![r] =
                      IF got.ok
                      THEN [Went(r, req, "install") EXCEPT !.vc_uri = got.v]
                      ELSE Raised(r, req, got.err)]
        /\ UNCHANGED <<requests, single>>

\* The installation of vc_uri; get_credential returns.
RunInstall(r) ==
    LET req == Request("POST", InstallUrl, Unset, [uri |-> runs[r].vc_uri])
    IN  /\ At(r, "install")
        /\ runs' = [runs EXCEPT ![r] = Went(r, req, AfterCredential)]
        /\ UNCHANGED <<requests, single>>

RunStep(r) ==
    \/ RunOnboard(r)
    \/ RunDid(r)
    \/ RunBeg(r)
    \/ RunListAuthority(r)
    \/ RunApprove(r)
    \/ RunListConsumer(r)
    \/ RunInstall(r)

\* A run is over once get_credential returned or init_all answered an error.
Over(r) == runs[r].pc \in {AfterCredential, "returned"}

\* One run after the other.
Turn(r) == \A q \in Runs : q < r => Over(q)

NextSequential ==
    \E r \in Runs :
        \/ Turn(r) /\ RunOnboard(r)
        \/ Turn(r) /\ RunDid(r)
        \/ Turn(r) /\ RunBeg(r)
        \/ Turn(r) /\ RunListAuthority(r)
        \/ Turn(r) /\ RunApprove(r)
        \/ Turn(r) /\ RunListConsumer(r)
        \/ Turn(r) /\ RunInstall(r)

SpecSequential == InitRuns /\ [][NextSequential]_vars

\* The runs interleaved request by request, as two threads of the server.
NextInterleaved == \E r \in Runs : RunStep(r)

SpecInterleaved == InitRuns /\ [][NextInterleaved]_vars

\* ------------------------------------------------------ properties
\* The fifteen remote calls of a complete run, in the order of the phases
\* Onboarding, Credential, Access-Grant, Negotiation, Transfer.
CallOrder ==
    << OnboardUrl("AUTHORITY"), OnboardUrl("CONSUMER"), OnboardUrl("PROVIDER"),
       DidUrl("AUTHORITY"), DidUrl("CONSUMER"), DidUrl("PROVIDER"),
       BegUrl, ListAuthorityUrl, ApproveUrl, ListConsumerUrl, InstallUrl,
       GrantUrl, PresentUrl,
       NegotiateUrl,
       TransferUrl >>

Issued(u) == \E i \in 1..Len(calls) : calls[i].url = u
LastCall == IF calls = <<>> THEN "" ELSE calls[Len(calls)].url
Bound(v) == v # Unset
NonEmptyId(v) == v.t = "str" /\ v.s # <<>>

\* The value under the first of id, @id, processId, contractId an object has.
IdOf(o) ==
    IF Has(o, "id") THEN Get(o, "id")
    ELSE IF Has(o, "@id") THEN Get(o, "@id")
    ELSE IF Has(o, "processId") THEN Get(o, "processId")
    ELSE Get(o, "contractId")

NoCandidate(v) ==
    v.t # "obj" \/ \A k \in {"id", "@id", "processId", "contractId"} : ~Has(v, k)

\* C1: the calls issued so far are always an initial part of the fixed call
\* order Onboarding, Credential, Access-Grant, Negotiation, Transfer (so no
\* phase is entered twice, out of order or after a later one), and a phase is
\* entered only with the previous phase's output in hand: the Credential
\* phase with three DIDs read, the Transfer phase with a negotiation id.
C1_PhaseOrder ==
    /\ Len(calls) <= Len(CallOrder)
    /\ \A i \in 1..Len(calls) : calls[i].url = CallOrder[i]
    /\ Issued(BegUrl) => Bound(authority_did) /\ Bound(consumer_did) /\ Bound(provider_did)
    /\ Issued(TransferUrl) => Bound(contract_id)

C1_Witness == status = "ok" /\ Len(calls) = Len(CallOrder)

\* C2: a failed run is over: once failed, no further call is issued and
\* nothing changes; no call is ever issued twice; the answer of a failed run
\* is {error: message} alone with status 500; and an answer with a 2xx status
\* exists only for a run all of whose phases succeeded.
C2_FailedAnswer ==
    /\ status = "failed" =>
          /\ pc = "returned"
          /\ http.code = 500
          /\ DOMAIN http.json = {"error"}
          /\ http.json.error # ""
    /\ status = "running" => http = NoAnswer
    /\ http.code \in 200..299 => status = "ok" /\ Len(calls) = Len(CallOrder)
    /\ \A i, j \in 1..Len(calls) : calls[i].url = calls[j].url => i = j

C2_FailureTerminal ==
    /\ []C2_FailedAnswer
    /\ [][status = "failed" => UNCHANGED vars]_vars
    /\ [][status' = "failed" => http'.json.error \in
              {"connection error", "'id'", "'vc_uri'", "list index out of range",
               "string indices must be integers", "string index out of range",
               "list indices must be integers or slices, not str", "-1",
               "'int' object is not subscriptable",
               "'NoneType' object is not subscriptable",
               "Response is not JSON", "No ID field found in response"}]_vars

C2_Witness ==
    /\ status = "failed"
    /\ LastCall = NegotiateUrl
    /\ Bound(authority_did) /\ Bound(provider_did)
    /\ http.json.error = "No ID field found in response"

\* The identifiers a request carries, in its body or its URL.
IdsSent(req) ==
    CASE req.url \in {BegUrl, GrantUrl} -> {req.body.id}
      [] req.url \in {InstallUrl, PresentUrl} -> {req.body.uri}
      [] req.url \in {NegotiateUrl, TransferUrl} -> {req.body.providerId}
      [] req.url = ApproveUrl -> {req.arg}
      [] OTHER -> {}

\* Every identifier the run has read or sent so far is a non-empty string.
NonEmptySoFar ==
    /\ \A d \in {authority_did, consumer_did, provider_did} : Bound(d) => NonEmptyId(d)
    /\ \A i \in 1..Len(calls) :
          calls[i].url \in {ApproveUrl, InstallUrl} =>
              \A v \in IdsSent(calls[i]) : NonEmptyId(v)

\* C3 as stated: a successful run answers the record with the keys
\* authority_did, consumer_did, provider_did, contract_process and
\* transfer_process, holding the three DIDs, the negotiation id and the
\* transfer id of the run (here for the runs whose identifiers are all
\* non-empty, as in the mocked scenario).
C3_ResultRecordAsStated ==
    (status = "ok" /\ NonEmptySoFar /\ NonEmptyId(contract_id) /\ NonEmptyId(transfer_id)) =>
        /\ DOMAIN http.json = {"authority_did", "consumer_did", "provider_did",
                               "contract_process", "transfer_process"}
        /\ http.json.authority_did = authority_did
        /\ http.json.consumer_did = consumer_did
        /\ http.json.provider_did = provider_did
        /\ http.json.contract_process = contract_id
        /\ http.json.transfer_process = IdOf(last)

\* C3, amended: a successful run answers, with status 200, the record with
\* exactly the keys authority_did, consumer_did, provider_did, contract_id and
\* transfer_id: the three DIDs read in Onboarding, the id extracted from the
\* negotiation response and the id extracted from the transfer response.
C3_ResultRecord ==
    status = "ok" =>
        /\ http.code = 200
        /\ DOMAIN http.json = {"authority_did", "consumer_did", "provider_did",
                               "contract_id", "transfer_id"}
        /\ http.json.authority_did = authority_did
        /\ http.json.consumer_did = consumer_did
        /\ http.json.provider_did = provider_did
        /\ http.json.contract_id = contract_id
        /\ http.json.transfer_id = IdOf(last)
        /\ Bound(authority_did) /\ Bound(consumer_did) /\ Bound(provider_did)
        /\ Bound(contract_id)

C3_Witness ==
    /\ status = "ok"
    /\ last = Obj(<< <<"id", Str(<<"a">>)>> >>)
    /\ http.json = [authority_did |-> Str(<<"a">>), consumer_did |-> Str(<<"a">>),
                    provider_did |-> Str(<<"a">>), contract_id |-> Str(<<"a">>),
                    transfer_id |-> Str(<<"a">>)]

\* C4: the Credential phase's first call (vc-request/beg/cross-user) is issued
\* only when all three DIDs read in Onboarding are non-empty strings.
C4_OnboardingYieldsIds ==
    Issued(BegUrl) =>
        NonEmptyId(authority_did) /\ NonEmptyId(consumer_did) /\ NonEmptyId(provider_did)

\* C5: every identifier placed into an outgoing request, and every identifier
\* of the successful answer, is a non-empty string.
C5_NoEmptyIdentifier ==
    /\ \A i \in 1..Len(calls) : \A v \in IdsSent(calls[i]) : NonEmptyId(v)
    /\ status = "ok" =>
          \A k \in DOMAIN http.json : NonEmptyId(http.json[k])

\* C6: whenever negotiate_contract or create_transfer has extracted an id from
\* an object, it is the value under the first of id, @id, processId,
\* contractId the object has; with id present it is the value under id,
\* whatever else the object holds and whatever the value's type.
C6_ExtractFirstCandidate ==
    /\ (LastCall = NegotiateUrl /\ last.t = "obj" /\ ~NoCandidate(last)) =>
          /\ status = "running"
          /\ contract_id = IdOf(last)
          /\ Has(last, "id") => contract_id = Get(last, "id")
    /\ (LastCall = TransferUrl /\ last.t = "obj" /\ ~NoCandidate(last)) =>
          /\ status = "ok"
          /\ transfer_id = IdOf(last)
          /\ Has(last, "id") => transfer_id = Get(last, "id")

C6_Witness ==
    /\ LastCall = NegotiateUrl
    /\ last = Obj(<< <<"@id", Str(<<"a">>)>>, <<"id", Null>> >>)
    /\ contract_id = Null

\* C7: when the negotiation response holds none of the candidate keys, the
\* run has failed with no negotiation id bound, and from then on no call (so
\* no transfer request) is issued.
C7_NoCandidateState ==
    (LastCall = NegotiateUrl /\ Bound(last) /\ NoCandidate(last)) =>
        /\ status = "failed"
        /\ contract_id = Unset
        /\ http.code = 500
        /\ ~Issued(TransferUrl)

C7_NegotiationWithoutId ==
    /\ []C7_NoCandidateState
    /\ [][(LastCall = NegotiateUrl /\ Bound(last) /\ NoCandidate(last))
              => calls' = calls]_vars

C7_Witness ==
    /\ LastCall = NegotiateUrl
    /\ last = Obj(<< <<"x", Str(<<"a">>)>> >>)
    /\ status = "failed"

\* t is s without its leading and trailing whitespace.
IsTrimOf(t, s) ==
    \E i \in 0..Len(s) : \E j \in 0..(Len(s) - i) :
        /\ t = SubSeq(s, i + 1, Len(s) - j)
        /\ \A k \in 1..i : s[k] \in Whitespace
        /\ \A k \in (Len(s) - j + 1)..Len(s) : s[k] \in Whitespace
        /\ t = <<>> \/ (t[1] \notin Whitespace /\ t[Len(t)] \notin Whitespace)

\* The access response is the bare string s, or the object {"uri": s}.
PresentationOf(v, s) == v = Str(s) \/ v = Obj(<< <<"uri", Str(s)>> >>)

\* C8: whether the access response is the bare string s or the object
\* {"uri": s}, the URI kept for the presentation is s trimmed, the same in
\* both shapes, and it is what the wallet/oidc4vp request carries as `uri`.
C8_TrimmedState ==
    pc = "present" =>
        \A s \in Strings :
            PresentationOf(last, s) => uri.t = "str" /\ IsTrimOf(uri.s, s)

C8_AccessNormalization ==
    /\ []C8_TrimmedState
    /\ [][(pc = "present" /\ calls' # calls) =>
              /\ calls' = Append(calls, calls'[Len(calls')])
              /\ calls'[Len(calls')].url = PresentUrl
              /\ calls'[Len(calls')].body = [uri |-> uri]]_vars

C8_Witness ==
    /\ pc = "present"
    /\ last = Obj(<< <<"uri", Str(<<" ", "a">>)>> >>)
    /\ uri = Str(<<"a">>)

\* C9: the wallet/oidc4vp request never carries an empty URI, nor the text
\* of a null (here for the runs whose earlier identifiers are all non-empty).
C9_NoEmptyPresentation ==
    NonEmptySoFar =>
        \A i \in 1..Len(calls) :
            calls[i].url = PresentUrl =>
                /\ NonEmptyId(calls[i].body.uri)
                /\ calls[i].body.uri # Str(PyStr(Null))

\* The entry carries an issuance URI.
HasVcUri(e) == e.t = "obj" /\ Has(e, "vc_uri") /\ NonEmptyId(Get(e, "vc_uri"))

\* C10: whenever the Consumer's listing has an entry with a vc_uri, the run
\* goes on to install the vc_uri of the last such entry (here for the runs
\* whose earlier identifiers are all non-empty).
C10_LastIssuedEntry ==
    (NonEmptySoFar /\ LastCall = ListConsumerUrl /\ last.t = "list"
        /\ \E i \in 1..Len(last.l) : HasVcUri(last.l[i])) =>
        LET n == CHOOSE i \in 1..Len(last.l) :
                    /\ HasVcUri(last.l[i])
                    /\ \A j \in (i + 1)..Len(last.l) : ~HasVcUri(last.l[j])
        IN  /\ status = "running"
            /\ pc = "install"
            /\ vc_uri = Get(last.l[n], "vc_uri")


\* The entry has no vc_uri field.
LacksVcUri(e) == ~(e.t = "obj" /\ Has(e, "vc_uri"))

\* The Authority's listing came back empty, or the entry the Consumer takes
\* from its own listing (the last one) has no vc_uri field.
NothingIssued ==
    \/ LastCall = ListAuthorityUrl /\ last = List(<<>>)
    \/ /\ LastCall = ListConsumerUrl
       /\ last.t = "list"
       /\ Len(last.l) > 0
       /\ LacksVcUri(last.l[Len(last.l)])

C11_NothingIssuedState ==
    NothingIssued =>
        /\ status = "failed"
        /\ http.code = 500
        /\ ~Issued(InstallUrl)
        /\ ~Issued(GrantUrl)

\* C11: when the Authority's listing is empty, or the request the Consumer
\* selects carries no vc_uri field, the run has failed without a
\* wallet/oidc4vci call, and no call (so no onboard/provider call) follows.
C11_CredentialNotIssued ==
    /\ []C11_NothingIssuedState
    /\ [][NothingIssued => calls' = calls]_vars

C11_Witness ==
    /\ LastCall = ListConsumerUrl
    /\ last = List(<< Obj(<< <<"id", Str(<<"a">>)>> >>) >>)
    /\ status = "failed"
    /\ http.json.error = "'vc_uri'"

\* C12: the transfer request carries, beside the Provider's id, the asset id
\* and the protocol, a field holding the negotiation id the run extracted
\* (here for the runs whose earlier identifiers are all non-empty).
C12_TransferCarriesNegotiationId ==
    (NonEmptySoFar /\ NonEmptyId(contract_id)) =>
        \A i \in 1..Len(calls) :
            calls[i].url = TransferUrl =>
                \E k \in DOMAIN calls[i].body \ {"providerId", "assetId", "protocol"} :
                    calls[i].body[k] = contract_id


OnboardingUrls ==
    {OnboardUrl("AUTHORITY"), OnboardUrl("CONSUMER"), OnboardUrl("PROVIDER"),
     DidUrl("AUTHORITY"), DidUrl("CONSUMER"), DidUrl("PROVIDER")}

\* The latest call was answered (no transport failure) with an error status.
AnsweredWithError == response.kind \in {"json", "text"} /\ response.code >= 400

\* C13: when a wallet/onboard call or a did.json fetch is answered with an
\* error status, the run has failed (and so issues no Credential-phase call).
C13_OnboardingErrorFatal ==
    (LastCall \in OnboardingUrls /\ AnsweredWithError) =>
        status = "failed" /\ ~Issued(BegUrl)

\* C14: what `call` returns for a body that is not JSON is no value a JSON
\* body could have decoded to (in particular not the string a JSON body
\* holding that text decodes to), and a transport failure returns nothing:
\* it fails the run.
C14_OpaqueSentinel ==
    /\ response.kind = "text" =>
          /\ last.t \notin {"obj", "list", "str", "num", "null"}
          /\ Ok(last) # call(JsonBody(response.code, Str(response.text)))
    /\ response.kind = "transport" => last = Unset /\ status = "failed"


\* The first value of an object: list(d.values())[0].
FirstValue(o) == o.kv[1][2]

\* The object has no usable `uri`: the key is absent, or its value is empty
\* or null.
NoUsableUri(o) ==
    ~Has(o, "uri") \/ Get(o, "uri") = Null \/ Get(o, "uri") = Str(<<>>)

C20_FallbackState ==
    /\ (pc = "present" /\ last.t = "obj" /\ NoUsableUri(last)) =>
          /\ Len(last.kv) > 0
          /\ uri.t = "str"
          /\ IsTrimOf(uri.s, PyStr(FirstValue(last)))
    /\ (LastCall = GrantUrl /\ last = Obj(<<>>)) =>
          status = "failed" /\ ~Issued(PresentUrl)

\* C20: when the access response is an object without a usable `uri`, the URI
\* kept for the presentation is the trimmed string form of the object's first
\* value; when the object is empty the run has failed and no call (so no
\* wallet/oidc4vp call) follows.
C20_FirstValueFallback ==
    /\ []C20_FallbackState
    /\ [][(LastCall = GrantUrl /\ last = Obj(<<>>)) => calls' = calls]_vars
    /\ [][(pc = "present" /\ calls' # calls) =>
              calls'[Len(calls')].body = [uri |-> uri]]_vars

C20_Witness ==
    /\ pc = "present"
    /\ last = Obj(<< <<"x", Str(<<"a">>)>>, <<"uri", Null>> >>)
    /\ uri = Str(<<"a">>)

\* C19: a DID, once read, never changes; each is the `id` of the identity
\* document read for it in Onboarding; the credential request carries the
\* Authority's DID, the access, negotiation and transfer requests carry the
\* Provider's, and the successful answer holds the three of them.
C19_DidsInRequests ==
    /\ \A i \in 1..Len(calls) :
          /\ calls[i].url = BegUrl => calls[i].body.id = authority_did
          /\ calls[i].url = GrantUrl => calls[i].body.id = provider_did
          /\ calls[i].url \in {NegotiateUrl, TransferUrl} =>
                calls[i].body.providerId = provider_did
    /\ status = "ok" =>
          /\ http.json.authority_did = authority_did
          /\ http.json.consumer_did = consumer_did
          /\ http.json.provider_did = provider_did

C19_DidsImmutable ==
    /\ []C19_DidsInRequests
    /\ [][/\ Bound(authority_did) => authority_did' = authority_did
          /\ Bound(consumer_did) => consumer_did' = consumer_did
          /\ Bound(provider_did) => provider_did' = provider_did]_vars
    /\ [][/\ (~Bound(authority_did) /\ Bound(authority_did')) =>
                /\ LastCall' = DidUrl("AUTHORITY")
                /\ authority_did' = Get(last', "id")
          /\ (~Bound(consumer_did) /\ Bound(consumer_did')) =>
                /\ LastCall' = DidUrl("CONSUMER")
                /\ consumer_did' = Get(last', "id")
          /\ (~Bound(provider_did) /\ Bound(provider_did')) =>
                /\ LastCall' = DidUrl("PROVIDER")
                /\ provider_did' = Get(last', "id")]_vars

C19_Witness ==
    /\ status = "ok"
    /\ authority_did = Str(<<"a">>)
    /\ consumer_did = Str(<<>>)
    /\ provider_did = Null
    /\ http.json.provider_did = Null
    /\ http.json.consumer_did = Str(<<>>)


\* C16: whatever JSON object is posted to /telemetry, the answer is, with a
\* 2xx status, the record {payload, received_at} whose payload is the posted
\* body.
C16_TelemetryEcho ==
    (pc = "returned" /\ Bound(request_json)) =>
        /\ http.code \in 200..299
        /\ DOMAIN http.json = {"payload", "received_at"}
        /\ http.json.payload = request_json

\* The requests run r named in an approval, and those whose issuance URI it
\* installed.
NameOf(q) == Str(PyStr(Num(q.id)))

Held == {requests[i] : i \in DOMAIN requests}

ApprovedBy(r) ==
    {q \in Held : \E i \in DOMAIN runs[r].calls :
        /\ runs[r].calls[i].url = ApproveUrl
        /\ runs[r].calls[i].arg = NameOf(q)}

InstalledBy(r) ==
    {q \in Held : \E i \in DOMAIN runs[r].calls :
        /\ runs[r].calls[i].url = InstallUrl
        /\ runs[r].calls[i].body = [uri |-> IssuanceUri(q.id)]}

CreatedBy(r) == {q \in Held : q.by = r}

\* Run r issued its requests in init_all's order, none twice, none skipped.
InOrder(r) ==
    \A i \in DOMAIN runs[r].calls :
        i <= 11 /\ runs[r].calls[i].url = CallOrder[i]

Credentialed(r) == runs[r].pc = AfterCredential /\ runs[r].status = "running"

\* C15: Onboarding and Credential run twice in sequence against the same
\* participants, whose listings keep the earlier requests and append the
\* new one, both complete without an error: no run ever fails, and until
\* both have completed the next request can be issued.
C15_RerunCompletes ==
    /\ \A r \in Runs : runs[r].status = "running" /\ runs[r].error = ""
    /\ (\A r \in Runs : Credentialed(r)) \/ ENABLED NextSequential

\* Both runs completed over requests left by earlier use, and the second
\* selected another request than the first.
C15_Witness ==
    /\ \A r \in Runs : Credentialed(r) /\ Len(runs[r].calls) = 11
    /\ \E i \in DOMAIN requests : requests[i].by = 0 /\ requests[i].approved
    /\ ApprovedBy(1) # {} /\ ApprovedBy(2) # {}
    /\ ApprovedBy(1) # ApprovedBy(2)

C17_OwnRequestState ==
    \A r \in Runs :
        /\ InOrder(r)
        /\ Cardinality(CreatedBy(r)) <= 1
        /\ (\E i \in DOMAIN runs[r].calls : runs[r].calls[i].url = ApproveUrl)
            => ApprovedBy(r) = CreatedBy(r) /\ Cardinality(ApprovedBy(r)) = 1

\* C17: in a run that does not overlap another, against listings ordered by
\* creation, the request the Authority approves is the one the Consumer
\* created in that run, which is the last element of the Authority's
\* listing when the run selects; and the run issues beg, list, approve,
\* re-list and install in that order, each once.
C17_ApprovesOwnRequest ==
    /\ []C17_OwnRequestState
    /\ [][\A r \in Runs :
            (runs[r].pc = "list_authority" /\ runs'[r].pc = "approve")
            => /\ requests # <<>>
               /\ requests[Len(requests)].by = r
               /\ runs'[r].petition_id = Num(requests[Len(requests)].id)]_vars

\* The second run went through the five steps over requests the first run
\* and earlier use left, and approved the request it created.
C17_Witness ==
    /\ Credentialed(2)
    /\ Len(requests) >= 3
    /\ [i \in 1..5 |-> runs[2].calls[6 + i].url] =
            <<BegUrl, ListAuthorityUrl, ApproveUrl, ListConsumerUrl, InstallUrl>>
    /\ ApprovedBy(2) = CreatedBy(2) /\ CreatedBy(2) # {}

\* Run r approved, and installed the issuance URI of, a request the other
\* run created.
CrossWired(r) ==
    /\ \E q \in ApprovedBy(r) : q.by \in Runs \ {r}
    /\ \E q \in InstalledBy(r) : q.by \in Runs \ {r}

\* C18: with two runs interleaved against the same participants, a run
\* selects by last position whoever created the request: the petition it
\* approves is the last element of the Authority's listing at that moment,
\* the URI it installs is that of the last element of the Consumer's
\* listing at that moment, and no request of a run carries an id of its
\* own by which the participants could tell its request from the other's.
C18_SelectionByPosition ==
    /\ [](\A r \in Runs : \A i \in DOMAIN runs[r].calls :
            LET c == runs[r].calls[i]
            IN  /\ c.url = BegUrl =>
                    c.body = beg_body(runs[r].authority_did) /\ c.arg = Unset
                /\ c.url \in {ListAuthorityUrl, ListConsumerUrl} =>
                    c.body = NoBody /\ c.arg = Unset)
    /\ [][\A r \in Runs :
            /\ (runs[r].pc = "list_authority" /\ runs'[r].pc = "approve")
               => runs'[r].petition_id = Num(requests[Len(requests)].id)
            /\ (runs[r].pc = "list_consumer" /\ runs'[r].pc = "install")
               => runs'[r].vc_uri = IssuanceUri(requests[Len(requests)].id)]_vars

\* The first run approved and installed the request of the second, which
\* begged between the first run's beg and its listing.
C18_Witness ==
    /\ CrossWired(1)
    /\ Credentialed(1)
    /\ CreatedBy(1) # {} /\ CreatedBy(1) \cap ApprovedBy(1) = {}


====
